---- MODULE Spec2Model ----
(***************************************************************************)
(* Model of backend/main.py: a FastAPI application that loads a ViT        *)
(* feature extractor and classifier at import time and serves              *)
(* POST /predict and GET /.                                                *)
(*                                                                         *)
(* The event loop is single threaded: a coroutine runs without             *)
(* interruption between two awaits.  predict() has one await (file.read(), *)
(* line 36), so each request is two atomic steps: PredictBegin (lines      *)
(* 29-36, up to the suspension) and PredictResume (lines 36-51).           *)
(***************************************************************************)
EXTENDS Integers, Sequences, FiniteSets, TLC

VARIABLES main, routes, feature_extractor, model, req, rootOut

vars == <<main, routes, feature_extractor, model, req, rootOut>>

(***************************************************************************)
(* Bounds                                                                  *)
(***************************************************************************)
\* number of POST /predict requests of one process lifetime that are modelled
MaxReq == 2

Requests == 1..MaxReq

(***************************************************************************)
(* Python values                                                           *)
(***************************************************************************)
\* Python's None
None == <<"None">>

\* str values are sequences of characters, so that startswith is computed
IMAGE_PREFIX == <<"i", "m", "a", "g", "e", "/">>

NOT_AN_IMAGE == "File provided is not an image"

ROOT_MESSAGE == "Crop Disease Detection API is running!"

\* declared content types of an upload; None is a part without Content-Type
ContentTypes ==
    { None,
      <<"i", "m", "a", "g", "e", "/", "p", "n", "g">>,
      <<"i", "m", "a", "g">>,
      <<"I", "m", "a", "g", "e", "/">> }

\* str.startswith(prefix)
StartsWith(s, prefix) ==
    /\ Len(s) >= Len(prefix)
    /\ SubSeq(s, 1, Len(prefix)) = prefix

(***************************************************************************)
(* Exceptions and what the handler produces                                *)
(***************************************************************************)
NoExc == [type |-> "none", key |-> -1, msg |-> ""]

Exc(type, msg) == [type |-> type, key |-> -1, msg |-> msg]

KeyError(k) == [type |-> "KeyError", key |-> k, msg |-> ""]

Digits == <<"0", "1", "2", "3", "4", "5", "6", "7", "8", "9">>

\* repr() of a small non-negative int
Repr(i) == Digits[i + 1]

\* str(e): the message, and for a KeyError the repr of the missing key
Str(e) == IF e.type = "KeyError" THEN Repr(e.key) ELSE e.msg

NoOut == [kind |-> "none", status |-> 0, key |-> "", value |-> ""]

\* raise HTTPException(status_code=.., detail=..)
HTTPException(status_code, detail) ==
    [kind |-> "HTTPException", status |-> status_code,
     key |-> "detail", value |-> detail]

\* return {"prediction": predicted_class}
ReturnPrediction(predicted_class) ==
    [kind |-> "return", status |-> 200,
     key |-> "prediction", value |-> predicted_class]

\* an exception that leaves predict() uncaught; the framework answers 500
Escaped(e) ==
    [kind |-> e.type, status |-> 500, key |-> "", value |-> Str(e)]

(***************************************************************************)
(* Uploaded bytes and PIL                                                  *)
(***************************************************************************)
Channels(mode) ==
    CASE mode = "L" -> 1
      [] mode = "P" -> 1
      [] mode = "RGB" -> 3
      [] mode = "RGBA" -> 4

\* an encoded one-pixel picture: signature, colour mode, palette, pixel data
File(sig, mode, palette, data) ==
    [sig |-> sig, mode |-> mode, palette |-> palette, data |-> data]

\* no bytes held
NoBytes == File("", "", <<>>, <<>>)

Uploads ==
    { File("PNG", "RGB", <<>>, <<2, 0, 1>>),
      File("PNG", "L", <<>>, <<2>>),
      File("PNG", "RGBA", <<>>, <<0, 2, 0, 1>>),
      File("GIF", "P", << <<0, 0, 0>>, <<0, 2, 0>> >>, <<1>>),
      File("PNG", "RGB", <<>>, <<2, 0>>),
      File("TXT", "L", <<>>, <<1>>) }

\* the UploadFile objects the framework can pass to predict(); the body of an
\* upload that the handler rejects is never read and is left out
UploadFiles ==
    { [content_type |-> ct, contents |-> NoBytes] :
        ct \in {c \in ContentTypes : c = None \/ ~StartsWith(c, IMAGE_PREFIX)} }
    \cup
    { [content_type |-> ct, contents |-> b] :
        ct \in {c \in ContentTypes : c # None /\ StartsWith(c, IMAGE_PREFIX)},
        b \in Uploads }

KnownSignatures == {"PNG", "GIF"}

Ok(v) == [ok |-> TRUE, val |-> v, exc |-> NoExc]

Raise(e) == [ok |-> FALSE, val |-> <<>>, exc |-> e]

\* Image.open(io.BytesIO(contents)): identifies the format, loads nothing yet
ImageOpen(contents) ==
    IF contents.sig \in KnownSignatures
    THEN Ok(contents)
    ELSE Raise(Exc("UnidentifiedImageError", "cannot identify image file"))

\* the pixel of a loaded image as R, G, B
ToRGB(img) ==
    CASE img.mode = "RGB" -> img.data
      [] img.mode = "L" -> <<img.data[1], img.data[1], img.data[1]>>
      [] img.mode = "RGBA" -> SubSeq(img.data, 1, 3)
      [] img.mode = "P" -> img.palette[img.data[1] + 1]

\* Convert without the mode conversion: the image keeps its own mode
ConvertKeepMode(img) ==
    IF Len(img.data) < Channels(img.mode)
    THEN Raise(Exc("OSError", "image file is truncated"))
    ELSE Ok([mode |-> img.mode, data |-> img.data])

\* Image.convert("RGB"): loads the pixel data, then converts the mode
Convert(img) ==
    IF Len(img.data) < Channels(img.mode)
    THEN Raise(Exc("OSError", "image file is truncated"))
    ELSE Ok([mode |-> "RGB", data |-> ToRGB(img)])

(***************************************************************************)
(* The pretrained artefacts                                                *)
(***************************************************************************)
\* class names of the classifier head (the library's default names)
ClassNames == <<"LABEL_0", "LABEL_1", "LABEL_2">>

NumLabels == Len(ClassNames)

\* preprocessing configuration: pixel values 0..2, normalised to -1..1
PreprocessorConfig == [image_mean |-> 1, image_std |-> 1]

\* classifier heads a load can produce (ignore_mismatched_sizes=True lets
\* the head be re-initialised): one row of weights per class
IdentityW == [i \in 1..NumLabels |-> [j \in 1..3 |-> IF j = ((i - 1) % 3) + 1 THEN 1 ELSE 0]]

ReverseW == [i \in 1..NumLabels |-> [j \in 1..3 |-> IF j = 3 - ((i - 1) % 3) THEN 1 ELSE 0]]

\* config.id2label tables: one key per logit, keyed from 0 or from 1
FullTable == [i \in 0..(NumLabels - 1) |-> ClassNames[i + 1]]

ShiftedTable == [i \in 1..NumLabels |-> ClassNames[i]]

\* the module-level names before their assignment has run
Unbound_feature_extractor == [image_mean |-> 0, image_std |-> 0]

Unbound_model == [W |-> <<>>, id2label |-> <<>>]

Checkpoints ==
    { [W |-> IdentityW, id2label |-> FullTable],
      [W |-> ReverseW, id2label |-> ShiftedTable] }

\* feature_extractor(images=image, return_tensors="pt")
FeatureExtractor(fe, image) ==
    IF Len(image.data) # 3
    THEN Raise(Exc("ValueError", "Unable to infer channel dimension format"))
    ELSE Ok([j \in 1..3 |-> (image.data[j] - fe.image_mean) \div fe.image_std])

\* a forward pass that is not stateless: once a request has finished, the
\* rows of the head are used in the opposite order
ForwardDrift(m, inputs) ==
    LET n == Len(m.W)
        W == IF \E q \in Requests : req[q].pc = "done"
             THEN [i \in 1..n |-> m.W[n + 1 - i]]
             ELSE m.W
    IN  [i \in 1..n |->
            W[i][1] * inputs[1] + W[i][2] * inputs[2] + W[i][3] * inputs[3]]

\* model(**inputs).logits: one score per class
Forward(m, inputs) ==
    [i \in 1..Len(m.W) |->
        m.W[i][1] * inputs[1] + m.W[i][2] * inputs[2] + m.W[i][3] * inputs[3]]

Max(S) == CHOOSE x \in S : \A y \in S : y <= x

\* argmax with the last of several maximal entries
ArgmaxLast(logits) ==
    LET m == Max({logits[i] : i \in 1..Len(logits)})
    IN  Max({i \in 1..Len(logits) : logits[i] = m}) - 1

\* logits.argmax(-1).item(): 0-based index of the first maximal entry
Argmax(logits) ==
    LET m == Max({logits[i] : i \in 1..Len(logits)})
    IN  (CHOOSE i \in 1..Len(logits) :
            /\ logits[i] = m
            /\ \A k \in 1..(i - 1) : logits[k] # m) - 1

\* model.config.id2label[predicted_class_idx]
Lookup(id2label, idx) ==
    IF idx \in DOMAIN id2label THEN Ok(id2label[idx]) ELSE Raise(KeyError(idx))

(***************************************************************************)
(* Requests                                                                *)
(***************************************************************************)
\* failures of the environment that a request can meet inside the try block
Faults == {"none", "read", "preprocess", "forward"}

IdleReq ==
    [pc |-> "idle", content_type |-> None, contents |-> NoBytes, fault |-> "none",
     trace |-> <<>>, exc |-> NoExc, out |-> NoOut]

\* the try body, lines 36-48: the stages that completed, the fault that struck
\* (a fault of a stage that is never reached strikes nothing), and the
\* exception or the label
TryBody(contents, fault, fe, m) ==
    IF fault = "read"
    THEN [trace |-> <<>>, hit |-> fault, res |-> Raise(Exc("OSError", "read failed"))]
    ELSE LET opened == ImageOpen(contents) IN
    IF ~opened.ok
    THEN [trace |-> <<"read">>, hit |-> "none", res |-> opened]
    ELSE LET image == Convert(opened.val) IN
    IF ~image.ok
    THEN [trace |-> <<"read", "open">>, hit |-> "none", res |-> image]
    ELSE LET inputs == IF fault = "preprocess"
                       THEN Raise(Exc("RuntimeError", "preprocess failed"))
                       ELSE FeatureExtractor(fe, image.val) IN
    IF ~inputs.ok
    THEN [trace |-> <<"read", "open", "convert">>,
          hit |-> IF fault = "preprocess" THEN fault ELSE "none", res |-> inputs]
    ELSE IF fault = "forward"
    THEN [trace |-> <<"read", "open", "convert", "preprocess">>, hit |-> fault,
          res |-> Raise(Exc("RuntimeError", "out of memory"))]
    ELSE LET predicted_class_idx == Argmax(Forward(m, inputs.val)) IN
         [trace |-> <<"read", "open", "convert", "preprocess", "forward", "argmax">>,
          hit |-> "none", res |-> Lookup(m.id2label, predicted_class_idx)]

\* an except clause that hides the failure's text
ExceptHandlerOpaque(e) == HTTPException(500, "Internal Server Error")

\* except Exception as e: raise HTTPException(status_code=500, detail=str(e))
ExceptHandler(e) == HTTPException(500, Str(e))

\* the content-type check placed after the read and the decoding
ValidateLate(content_type, contents) ==
    IF content_type = None
    THEN [IdleReq EXCEPT !.pc = "done", !.content_type = content_type,
                         !.trace = <<"read", "open", "validate">>,
                         !.out = Escaped(Exc("AttributeError",
                             "'NoneType' object has no attribute 'startswith'"))]
    ELSE IF ~StartsWith(content_type, IMAGE_PREFIX)
    THEN [IdleReq EXCEPT !.pc = "done", !.content_type = content_type,
                         !.trace = <<"read", "open", "validate">>,
                         !.out = HTTPException(400, NOT_AN_IMAGE)]
    ELSE [IdleReq EXCEPT !.pc = "reading", !.content_type = content_type,
                         !.contents = contents, !.trace = <<"validate">>]

\* lines 31-32: the content-type check of an arriving upload.  A request that
\* ends here never looks at the body, so its record keeps no bytes.
Validate(content_type, contents) ==
    IF content_type = None
    THEN [IdleReq EXCEPT !.pc = "done", !.content_type = content_type,
                         !.trace = <<"validate">>,
                         !.out = Escaped(Exc("AttributeError",
                             "'NoneType' object has no attribute 'startswith'"))]
    ELSE IF ~StartsWith(content_type, IMAGE_PREFIX)
    THEN [IdleReq EXCEPT !.pc = "done", !.content_type = content_type,
                         !.trace = <<"validate">>,
                         !.out = HTTPException(400, NOT_AN_IMAGE)]
    ELSE [IdleReq EXCEPT !.pc = "reading", !.content_type = content_type,
                         !.contents = contents, !.trace = <<"validate">>]

\* line 36: the bytes file.read() hands to request r
ReadFile(r) == req[r].contents

(***************************************************************************)
(* Startup: the module body, executed once at import                       *)
(***************************************************************************)
Init ==
    /\ main = "start"
    /\ routes = {}
    /\ feature_extractor = Unbound_feature_extractor
    /\ model = Unbound_model
    /\ req = [r \in Requests |-> IdleReq]
    /\ rootOut = NoOut

\* line 21: ViTFeatureExtractor.from_pretrained(..), which can raise
LoadFeatureExtractor ==
    /\ main = "start"
    /\ \E ok \in BOOLEAN :
        IF ok
        THEN /\ feature_extractor' = PreprocessorConfig
             /\ main' = "fe_loaded"
        ELSE /\ main' = "failed"
             /\ UNCHANGED feature_extractor
    /\ UNCHANGED <<routes, model, req, rootOut>>

\* a failed model load that is swallowed: the import goes on without a model
LoadModelSwallowed ==
    /\ main' = "model_loaded"
    /\ UNCHANGED model

\* a failed model load: the import is aborted by the exception
LoadModelFailed ==
    /\ main' = "failed"
    /\ UNCHANGED model

\* lines 22-25: ViTForImageClassification.from_pretrained(..), which can raise
LoadModel ==
    /\ main = "fe_loaded"
    /\ \/ \E ckpt \in Checkpoints :
            /\ model' = ckpt
            /\ main' = "model_loaded"
       \/ LoadModelFailed
    /\ UNCHANGED <<routes, feature_extractor, req, rootOut>>

\* lines 28-55: the decorators register both routes; the server then serves app
RegisterRoutes ==
    /\ main = "model_loaded"
    /\ routes' = {"POST /predict", "GET /"}
    /\ main' = "serving"
    /\ UNCHANGED <<feature_extractor, model, req, rootOut>>

(***************************************************************************)
(* Handlers                                                                *)
(***************************************************************************)
\* a handler that rebinds the label table of the shared model
SharedFrameRebind ==
    /\ model' = [model EXCEPT !.id2label = ShiftedTable]
    /\ UNCHANGED feature_extractor

\* predict() holds no reference through which the loaded objects are assigned
SharedFrame == UNCHANGED <<feature_extractor, model>>

\* lines 29-36: a request enters predict() and runs up to the await
PredictBegin(r) ==
    /\ main = "serving"
    /\ "POST /predict" \in routes
    /\ req[r].pc = "idle"
    /\ \A q \in 1..(r - 1) : req[q].pc # "idle"
    /\ \E file \in UploadFiles :
        req' = [req EXCEPT ![r] = Validate(file.content_type, file.contents)]
    /\ SharedFrame
    /\ UNCHANGED <<main, routes, rootOut>>

\* lines 36-51: file.read() completes (or raises) and the rest of predict() runs
PredictResume(r) ==
    /\ req[r].pc = "reading"
    /\ \E fault \in Faults :
        LET body == TryBody(ReadFile(r), fault, feature_extractor, model)
        IN  req' = [req EXCEPT ![r].pc = "done",
                               ![r].fault = body.hit,
                               ![r].trace = req[r].trace \o body.trace,
                               ![r].exc = body.res.exc,
                               ![r].out = IF body.res.ok
                                          THEN ReturnPrediction(body.res.val)
                                          ELSE ExceptHandler(body.res.exc)]
    /\ SharedFrame
    /\ UNCHANGED <<main, routes, rootOut>>

\* a health answer that depends on the requests in flight
RootBodyBusy ==
    IF \E r \in Requests : req[r].pc = "reading"
    THEN [kind |-> "return", status |-> 503, key |-> "message", value |-> "busy"]
    ELSE [kind |-> "return", status |-> 200, key |-> "message", value |-> ROOT_MESSAGE]

\* lines 53-55: return {"message": "Crop Disease Detection API is running!"}
RootBody == [kind |-> "return", status |-> 200, key |-> "message", value |-> ROOT_MESSAGE]

\* lines 53-55: GET / is answered
Root ==
    /\ main = "serving"
    /\ "GET /" \in routes
    /\ rootOut' = RootBody
    /\ UNCHANGED <<main, routes, feature_extractor, model, req>>

Next ==
    \/ LoadFeatureExtractor
    \/ LoadModel
    \/ RegisterRoutes
    \/ \E r \in Requests : PredictBegin(r)
    \/ \E r \in Requests : PredictResume(r)
    \/ Root

Spec == Init /\ [][Next]_vars

TypeOK ==
    /\ main \in {"start", "fe_loaded", "model_loaded", "serving", "failed"}
    /\ \A r \in Requests : req[r].pc \in {"idle", "reading", "done"}

(***************************************************************************)
(* Properties                                                              *)
(***************************************************************************)
Done(r) == req[r].pc = "done"

\* the declared content type is a str that starts with "image/"
IsImageType(ct) == ct # None /\ StartsWith(ct, IMAGE_PREFIX)

\* the bytes are a complete picture in a known format
Decodable(b) == b.sig \in KnownSignatures /\ Len(b.data) >= Channels(b.mode)

Range(f) == {f[x] : x \in DOMAIN f}

Returned200(r) == Done(r) /\ req[r].out.kind = "return" /\ req[r].out.status = 200

\* the label table has a key for every output index of the classifier
TableTotal == \A i \in 0..(Len(model.W) - 1) : i \in DOMAIN model.id2label

\* C1: every finished request whose declared content type does not start
\* with "image/", an upload without any content type included, got
\* HTTP 400 with detail "File provided is not an image".
C1_NonImageGets400 ==
    \A r \in Requests :
        (Done(r) /\ ~IsImageType(req[r].content_type))
            => req[r].out = HTTPException(400, NOT_AN_IMAGE)

\* C2: a request with an image/ content type in which a stage after the
\* validation failed (read fault, undecodable bytes, truncated data,
\* preprocessing or forward fault, missing label key) ends as HTTP 500 whose
\* detail is str() of the exception raised, never as 200, 400 or a label.
C2_FailureGives500 ==
    \A r \in Requests :
        (/\ Done(r)
         /\ IsImageType(req[r].content_type)
         /\ \/ req[r].exc # NoExc
            \/ req[r].fault # "none"
            \/ ~Decodable(req[r].contents))
            => /\ req[r].exc # NoExc
               /\ req[r].out.kind = "HTTPException"
               /\ req[r].out.status = 500
               /\ req[r].out.key = "detail"
               /\ req[r].out.value = Str(req[r].exc)

C2_Witness ==
    \E a, b \in Requests :
        /\ Done(a) /\ req[a].exc.type = "UnidentifiedImageError" /\ req[a].out.status = 500
        /\ Done(b) /\ req[b].exc.type = "KeyError" /\ req[b].out.value = "0"

C4_RejectedDoesNothingElse ==
    \A r \in Requests :
        /\ (Done(r) /\ req[r].out.status = 400)
              => /\ req[r].trace = <<"validate">>
                 /\ req[r].contents = NoBytes
                 /\ req[r].fault = "none"
                 /\ req[r].exc = NoExc
        /\ req[r].pc # "idle" => req[r].trace[1] = "validate"
        /\ \A i \in 1..Len(req[r].trace) :
              req[r].trace[i] \in {"read", "open", "convert", "preprocess", "forward", "argmax"}
                  => i > 1

C4_Witness ==
    \E a, b \in Requests :
        /\ Done(a) /\ req[a].out.status = 400
        /\ req[b].pc = "reading"

ServedOnlyWhenLoaded ==
    ((\E r \in Requests : req[r].pc # "idle") \/ rootOut # NoOut)
        => /\ feature_extractor # Unbound_feature_extractor
           /\ model # Unbound_model
           /\ main = "serving"

\* C6: no request (POST /predict or GET /) is handled before the transform
\* and the model are both loaded, and once a load has failed the process
\* stays failed and never handles any request.
C6_NoServiceWithoutLoad ==
    [][/\ ServedOnlyWhenLoaded'
       /\ main = "failed" => (main' = "failed" /\ UNCHANGED <<routes, req, rootOut>>)
       /\ main' = "failed" => (routes' = {} /\ rootOut' = NoOut
                                /\ \A r \in Requests : req'[r].pc = "idle")]_vars

C6_Witness ==
    /\ main = "failed"
    /\ feature_extractor # Unbound_feature_extractor
    /\ \A r \in Requests : req[r].pc = "idle"

\* C7: whenever the process is serving, GET / is answered with 200 and the
\* fixed message, whatever the requests in flight or finished, and answering
\* it changes neither the loaded objects nor any request.
C7_RootAlwaysFixed ==
    [][/\ main' = "serving" => ("GET /" \in routes')
       /\ rootOut' # NoOut =>
             rootOut' = [kind |-> "return", status |-> 200,
                         key |-> "message", value |-> ROOT_MESSAGE]
       /\ rootOut' # rootOut => UNCHANGED <<main, routes, feature_extractor, model, req>>]_vars

C7_Witness ==
    /\ rootOut.status = 200
    /\ rootOut.value = ROOT_MESSAGE
    /\ \E a, b \in Requests : req[a].pc = "reading" /\ Done(b) /\ req[b].out.status = 500

\* C8: every finished request has one of exactly three outcomes chosen by
\* the handler: 200 with a prediction, 400 with the fixed detail, or 500 with
\* a detail; no exception leaves predict() other than these.
C8_ThreeShapesOnly ==
    \A r \in Requests :
        Done(r) =>
            \/ /\ req[r].out.kind = "return"
               /\ req[r].out.status = 200
               /\ req[r].out.key = "prediction"
            \/ req[r].out = HTTPException(400, NOT_AN_IMAGE)
            \/ /\ req[r].out.kind = "HTTPException"
               /\ req[r].out.status = 500
               /\ req[r].out.key = "detail"

\* the logits of the picture that request r carried
LogitsOf(r) ==
    Forward(model, [j \in 1..3 |->
        (ToRGB(req[r].contents)[j] - feature_extractor.image_mean)
            \div feature_extractor.image_std])

\* C9: a successful request returns the label-table entry of an index whose
\* logit is maximal, and every lower index has a strictly smaller logit.
C9_LabelOfFirstMax ==
    \A r \in Requests :
        Returned200(r) =>
            \E i \in 1..Len(LogitsOf(r)) :
                /\ \A k \in 1..Len(LogitsOf(r)) : LogitsOf(r)[k] <= LogitsOf(r)[i]
                /\ \A k \in 1..(i - 1) : LogitsOf(r)[k] < LogitsOf(r)[i]
                /\ (i - 1) \in DOMAIN model.id2label
                /\ req[r].out.value = model.id2label[i - 1]

C9_Witness ==
    \E r \in Requests :
        /\ Returned200(r)
        /\ \E i, k \in 1..Len(LogitsOf(r)) :
              /\ i < k
              /\ LogitsOf(r)[i] = LogitsOf(r)[k]
              /\ \A n \in 1..Len(LogitsOf(r)) : LogitsOf(r)[n] <= LogitsOf(r)[i]

\* C10: once the routes are registered no step changes the transform, the
\* model or its label table, and a step changes at most one request's data.
C10_SharedStateFrozen ==
    [][main = "serving" =>
          /\ UNCHANGED <<feature_extractor, model>>
          /\ Cardinality({r \in Requests : req'[r] # req[r]}) <= 1]_vars

C10_Witness ==
    \E a, b \in Requests :
        /\ Returned200(a)
        /\ Done(b) /\ req[b].out.status = 500
        /\ model \in Checkpoints

====
